---- MODULE Spec2Model ----
(***************************************************************************)
(* LossAccPlotter (laplotter.py): the four stored series, the sanitizer    *)
(* ignore_nan_and_inf, add_values, redraw and the two derived views        *)
(* _calc_sma and _calc_regression.                                         *)
(*                                                                         *)
(* Numbers.  A Python float argument is a record [k, v]: k is "none" for   *)
(* None, "nan", "inf" (v is the sign) or "fin" (v is the number).  Stored  *)
(* observations are finite numbers and are kept as integers.  A computed   *)
(* float (a mean, a fitted value) is the exact rational <<num, den>>; two  *)
(* of them are the same number when RatEq holds.  Percentages are kept in  *)
(* tenths (0.2 is 2), see PercDen.                                         *)
(***************************************************************************)
EXTENDS Integers, Sequences, FiniteSets, TLC

VARIABLES
    values_x,            \* channel -> list of x indices   (self.values_*_x)
    values_y,            \* channel -> list of values      (self.values_*_y)
    averages_period,     \* self.averages_period
    poly_forward_perc,   \* self.poly_forward_perc, in tenths
    poly_backward_perc,  \* self.poly_backward_perc, in tenths
    poly_n_forward_min,  \* self.poly_n_forward_min
    poly_n_backward_min, \* self.poly_n_backward_min
    poly_n_forward_max,  \* self.poly_n_forward_max
    poly_n_backward_max, \* self.poly_n_backward_max
    show_regressions,    \* self.show_regressions
    show_averages,       \* self.show_averages
    show_loss_plot,      \* self.show_loss_plot
    show_acc_plot,       \* self.show_acc_plot
    fig,                 \* self.fig: "None" until the first redraw
    nb_calls,            \* number of add_values calls made so far
    call,                \* the last add_values call: arguments, sanitized values, warnings
    sma,                 \* channel -> what _calc_sma returned in the last redraw
    regression,          \* channel -> what _calc_regression did in the last redraw
    redrawn_at,          \* nb_calls when redraw last ran, -1 before the first redraw
    raised               \* the last operation ended with an exception

vars == <<values_x, values_y, averages_period, poly_forward_perc,
          poly_backward_perc, poly_n_forward_min, poly_n_backward_min,
          poly_n_forward_max, poly_n_backward_max, show_regressions,
          show_averages, show_loss_plot, show_acc_plot, fig, nb_calls, call,
          sma, regression, redrawn_at, raised>>

config == <<averages_period, poly_forward_perc, poly_backward_perc,
            poly_n_forward_min, poly_n_backward_min, poly_n_forward_max,
            poly_n_backward_max, show_regressions, show_averages,
            show_loss_plot, show_acc_plot>>

----------------------------------------------------------------------------
(* Bounds of the model. *)

\* add_values is called at most MaxCalls times (Spec)
MaxCalls == 2
\* length of the series the derived views are computed on (SpecSma, SpecReg)
MaxLen == 3
\* smoothing windows are drawn from 1..MaxPeriod (SpecSma)
MaxPeriod == 2
\* the largest clamp bound poly_n_*_min/max of SpecReg
MaxBound == 2

\* x_index of an add_values call
XIndices == {0, 1}
\* finite values supplied to add_values
FinVals == {3}
\* indices and values of the series the derived views are computed on
SeriesIdx == {0, 1, 2}
SeriesVals == {0, 3}

----------------------------------------------------------------------------
(* Values and channels. *)

None == [k |-> "none", v |-> 0]
NaN == [k |-> "nan", v |-> 0]
PosInf == [k |-> "inf", v |-> 1]
NegInf == [k |-> "inf", v |-> -1]
Fin(n) == [k |-> "fin", v |-> n]

isnan(value) == value.k = "nan"
isinf(value) == value.k = "inf"

\* the four series of the plotter, in the order the code handles them
ChannelOrder == <<"loss_train", "loss_val", "acc_train", "acc_val">>
Channels == {ChannelOrder[i] : i \in 1..4}

\* the label add_values passes to ignore_nan_and_inf for each channel
Label(c) ==
    CASE c = "loss_train" -> "loss train"
      [] c = "loss_val" -> "loss val"
      [] c = "acc_train" -> "acc train"
      [] c = "acc_val" -> "acc val"

\* the axis a channel is drawn on exists (ax_loss / ax_acc is not None)
HasAxis(c) == IF c \in {"loss_train", "loss_val"} THEN show_loss_plot ELSE show_acc_plot

----------------------------------------------------------------------------
(* Arithmetic helpers. *)

PercDen == 10

Max(a, b) == IF a >= b THEN a ELSE b
Min(a, b) == IF a <= b THEN a ELSE b

RECURSIVE Sum(_)
Sum(s) == IF s = <<>> THEN 0 ELSE Head(s) + Sum(Tail(s))

\* sum of the products s[i] * t[i]
RECURSIVE Dot(_, _)
Dot(s, t) == IF s = <<>> THEN 0 ELSE Head(s) * Head(t) + Dot(Tail(s), Tail(t))

\* two rationals <<num, den>> denote the same number
RatEq(p, q) == p[1] * q[2] = q[1] * p[2]

\* Python's s[-n:]
TailSlice(s, n) ==
    LET len == Len(s)
        start == IF n > 0 THEN Max(len - n, 0) ELSE Min(-n, len)
    IN SubSeq(s, start + 1, len)

\* Python's range(a, b) as a list
Range(a, b) == [i \in 1..Max(b - a, 0) |-> a + i - 1]

----------------------------------------------------------------------------
(* ignore_nan_and_inf: what it returns, the warnings it emits, whether it  *)
(* raises.                                                                 *)

Warning(text, label, x_index) == [text |-> text, label |-> label, x_index |-> x_index]

\* ignore_nan_and_inf without its isinf branch
ignore_nan_and_inf_no_inf(value, label, x_index) ==
    IF value = None
    THEN [ret |-> None, warned |-> <<>>, raised |-> FALSE]
    ELSE IF isnan(value)
    THEN [ret |-> None, warned |-> <<Warning("NaN", label, x_index)>>, raised |-> FALSE]
    ELSE [ret |-> value, warned |-> <<>>, raised |-> FALSE]

\* ignore_nan_and_inf replacing a rejected value by 0.0 instead of None
ignore_nan_and_inf_zero(value, label, x_index) ==
    IF value = None
    THEN [ret |-> None, warned |-> <<>>, raised |-> FALSE]
    ELSE IF isnan(value)
    THEN [ret |-> Fin(0), warned |-> <<Warning("NaN", label, x_index)>>, raised |-> FALSE]
    ELSE IF isinf(value)
    THEN [ret |-> Fin(0), warned |-> <<Warning("INF", label, x_index)>>, raised |-> FALSE]
    ELSE [ret |-> value, warned |-> <<>>, raised |-> FALSE]

ignore_nan_and_inf(value, label, x_index) ==
    IF value = None
    THEN [ret |-> None, warned |-> <<>>, raised |-> FALSE]
    ELSE IF isnan(value)
    THEN [ret |-> None, warned |-> <<Warning("NaN", label, x_index)>>, raised |-> FALSE]
    ELSE IF isinf(value)
    THEN [ret |-> None, warned |-> <<Warning("INF", label, x_index)>>, raised |-> FALSE]
    ELSE [ret |-> value, warned |-> <<>>, raised |-> FALSE]

----------------------------------------------------------------------------
(* _calc_sma: the loop over y_values with its running sum.                 *)

RECURSIVE SmaLoop(_, _, _, _)
SmaLoop(rest, last_ys, running_sum, result_y) ==
    IF rest = <<>>
    THEN result_y
    ELSE LET y_val == Head(rest)
             pushed == Append(last_ys, y_val)
             over == Len(pushed) > averages_period
             kept == IF over THEN Tail(pushed) ELSE pushed
             total == IF over
                      THEN running_sum + y_val - Head(pushed)
                      ELSE running_sum + y_val
         IN SmaLoop(Tail(rest), kept, total,
                    Append(result_y, <<total, Len(kept)>>))

\* the loop without "running_sum -= poped_y"
RECURSIVE SmaLoopKeepSum(_, _, _, _)
SmaLoopKeepSum(rest, last_ys, running_sum, result_y) ==
    IF rest = <<>>
    THEN result_y
    ELSE LET pushed == Append(last_ys, Head(rest))
             kept == IF Len(pushed) > averages_period THEN Tail(pushed) ELSE pushed
             total == running_sum + Head(rest)
         IN SmaLoopKeepSum(Tail(rest), kept, total,
                           Append(result_y, <<total, Len(kept)>>))

_calc_sma_keep_sum(x_values, y_values) ==
    [called |-> TRUE, x |-> x_values, y |-> SmaLoopKeepSum(y_values, <<>>, 0, <<>>)]

_calc_sma(x_values, y_values) ==
    [called |-> TRUE, x |-> x_values, y |-> SmaLoop(y_values, <<>>, 0, <<>>)]

NoSma == [called |-> FALSE, x |-> <<>>, y |-> <<>>]

----------------------------------------------------------------------------
(* _calc_regression.                                                       *)

poly_degree == 1

\* int(round(nb_values * perc)): the product rounded half away from zero
IntPercRounded(nb_values, perc) == (2 * nb_values * perc + PercDen) \div (2 * PercDen)

\* int(nb_values * perc): the product truncated to an integer
IntPerc(nb_values, perc) == (nb_values * perc) \div PercDen

\* the clamp without its "n = min(n, hi)"
ClampBelowOnly(n, lo, hi) == Max(n, lo)

\* n = max(n, lo); n = min(n, hi)
Clamp(n, lo, hi) == Min(Max(n, lo), hi)

\* np.polyfit(xs, ys, 1): the least-squares line a*x + b, as the rationals
\* a = slope / den and b = icpt / den.  When all xs are equal the system is
\* rank deficient and numpy answers with the minimum-norm solution of the
\* column-scaled system, a = Sy/(2*n*x0), b = Sy/(2*n); when they are all 0
\* the scaling divides by zero and the solver raises LinAlgError.
polyfit(xs, ys) ==
    LET n == Len(xs)
        Sx == Sum(xs)
        Sy == Sum(ys)
        Sxx == Dot(xs, xs)
        Sxy == Dot(xs, ys)
        D == n * Sxx - Sx * Sx
    IN IF D # 0
       THEN [ok |-> TRUE, slope |-> n * Sxy - Sx * Sy,
             icpt |-> Sy * Sxx - Sx * Sxy, den |-> D]
       ELSE IF xs[1] # 0
       THEN [ok |-> TRUE, slope |-> Sy, icpt |-> Sy * xs[1],
             den |-> 2 * n * xs[1]]
       ELSE [ok |-> FALSE, slope |-> 0, icpt |-> 0, den |-> 1]

\* np.poly1d(fit)(x_idx)
poly(fit, x_idx) == <<fit.slope * x_idx + fit.icpt, fit.den>>

\* range(last_x + 1, last_x + 1 + n_forward)
FutureXAfterLast(last_x, n_forward) == Range(last_x + 1, last_x + 1 + n_forward)

\* range(last_x, last_x + n_forward)
FutureX(last_x, n_forward) == Range(last_x, last_x + n_forward)

NoRegression ==
    [called |-> FALSE, fitted |-> FALSE, raised |-> FALSE,
     future_x |-> <<>>, future_y |-> <<>>, nb_values |-> 0,
     raw_backward |-> 0, raw_forward |-> 0, n_backward |-> 0, n_forward |-> 0,
     fit_x |-> <<>>, fit_y |-> <<>>]

\* The record holds the returned pair (future_x, future_y) and the locals of
\* the call: the window sizes before and after the clamp and the slices
\* passed to the fit.
_calc_regression(x_values, y_values) ==
    IF x_values = <<>> \/ Len(x_values) < 2
    THEN [NoRegression EXCEPT !.called = TRUE, !.nb_values = Len(x_values)]
    ELSE
    LET last_x == x_values[Len(x_values)]
        nb_values == Len(x_values)
        raw_backward == IntPerc(nb_values, poly_backward_perc)
        n_backward == Clamp(raw_backward, poly_n_backward_min, poly_n_backward_max)
        raw_forward == IntPerc(nb_values, poly_forward_perc)
        n_forward == Clamp(raw_forward, poly_n_forward_min, poly_n_forward_max)
        sized == [NoRegression EXCEPT !.called = TRUE, !.nb_values = nb_values,
                    !.raw_backward = raw_backward, !.raw_forward = raw_forward,
                    !.n_backward = n_backward, !.n_forward = n_forward]
    IN IF n_backward <= 0 /\ n_forward <= 0
       THEN sized
       ELSE
       LET fit_x == TailSlice(x_values, n_backward)
           fit_y == TailSlice(y_values, n_backward)
           fit == polyfit(fit_x, fit_y)
           future_x == FutureX(last_x, n_forward)
           future_y == [i \in 1..Len(future_x) |-> poly(fit, future_x[i])]
       IN IF fit.ok
          THEN [sized EXCEPT !.fitted = TRUE, !.fit_x = fit_x, !.fit_y = fit_y,
                             !.future_x = future_x, !.future_y = future_y]
          ELSE [sized EXCEPT !.raised = TRUE, !.fit_x = fit_x, !.fit_y = fit_y]

----------------------------------------------------------------------------
(* redraw: _initialize_plot on the first call, then the main lines, the    *)
(* averages (_redraw_averages) and the regressions (_redraw_regressions)   *)
(* of the series vx, vy.  Drawing itself is left to matplotlib.            *)

\* _redraw_averages calls _calc_sma for the channels that have an axis
RedrawAverages(vx, vy) ==
    [c \in Channels |->
        IF show_averages /\ HasAxis(c) THEN _calc_sma(vx[c], vy[c]) ELSE NoSma]

\* _redraw_regressions reaches the call for channel number i
RegressionWanted(i) == show_regressions /\ HasAxis(ChannelOrder[i])

\* _redraw_regressions calls _calc_regression channel by channel; an
\* exception in one call ends the method, so the later calls are not made
RedrawRegressions(vx, vy) ==
    LET result == [i \in 1..4 |->
                     IF RegressionWanted(i)
                     THEN _calc_regression(vx[ChannelOrder[i]], vy[ChannelOrder[i]])
                     ELSE NoRegression]
        reached(i) == \A j \in 1..(i - 1) : ~result[j].raised
    IN [c \in Channels |->
           LET i == CHOOSE k \in 1..4 : ChannelOrder[k] = c
           IN IF reached(i) THEN result[i] ELSE NoRegression]

RedrawOf(vx, vy) ==
    /\ fig' = "Figure"
    /\ sma' = RedrawAverages(vx, vy)
    /\ regression' = RedrawRegressions(vx, vy)
    /\ redrawn_at' = nb_calls'
    /\ raised' = (\E c \in Channels : regression'[c].raised)

\* redraw with a _calc_sma that consumes its argument (y_values.pop(0))
RedrawConsuming ==
    /\ UNCHANGED <<values_x, nb_calls, call, config>>
    /\ values_y' = [c \in Channels |->
                      IF show_averages /\ HasAxis(c) THEN <<>> ELSE values_y[c]]
    /\ RedrawOf(values_x, values_y)

Redraw ==
    /\ UNCHANGED <<values_x, values_y, nb_calls, call, config>>
    /\ RedrawOf(values_x, values_y)

----------------------------------------------------------------------------
(* add_values                                                              *)

\* the values a caller passes for one channel
ArgVals == {None, NaN, PosInf, NegInf} \cup {Fin(n) : n \in FinVals}

\* the keyword values of one call, any value for any channel
AllArgs == [Channels -> ArgVals]

\* the calls of Spec: at most two of the four values are given, finite or
\* NaN but not both NaN, and the others keep their default None
FewArgs == {a \in [Channels -> {None, NaN} \cup {Fin(n) : n \in FinVals}] :
                /\ Cardinality({c \in Channels : a[c] # None}) <= 2
                /\ Cardinality({c \in Channels : a[c] = NaN}) <= 1}

RECURSIVE Concat(_)
Concat(ss) == IF ss = <<>> THEN <<>> ELSE Head(ss) \o Concat(Tail(ss))

\* list.insert(0, item)
append_front(list, item) == <<item>> \o list

\* list.append(item)
append(list, item) == Append(list, item)

\* the index appended whether or not the value was kept
StoredXAlways(list, value, x_index) == append(list, x_index)

\* if value is not None: self.values_*_x.append(x_index)
StoredX(list, value, x_index) ==
    IF value # None THEN append(list, x_index) ELSE list

\* if value is not None: self.values_*_y.append(value)
StoredY(list, value) ==
    IF value # None THEN append(list, value.v) ELSE list

AddValues(x_index, args, redraw) ==
    LET checked == [c \in Channels |-> ignore_nan_and_inf(args[c], Label(c), x_index)]
        new_x == [c \in Channels |-> StoredX(values_x[c], checked[c].ret, x_index)]
        new_y == [c \in Channels |-> StoredY(values_y[c], checked[c].ret)]
    IN /\ nb_calls' = nb_calls + 1
       /\ values_x' = new_x
       /\ values_y' = new_y
       /\ call' = [x_index |-> x_index, args |-> args, redraw |-> redraw,
                   sanitized |-> [c \in Channels |-> checked[c].ret],
                   warnings |-> Concat([i \in 1..4 |-> checked[ChannelOrder[i]].warned]),
                   raised |-> \E c \in Channels : checked[c].raised]
       /\ IF redraw
          THEN RedrawOf(new_x, new_y)
          ELSE /\ raised' = FALSE
               /\ UNCHANGED <<fig, sma, regression, redrawn_at>>
       /\ UNCHANGED config

add_values ==
    /\ nb_calls < MaxCalls
    /\ \E x_index \in XIndices, args \in FewArgs, redraw \in BOOLEAN :
          AddValues(x_index, args, redraw)

----------------------------------------------------------------------------
(* The plotter after __init__ and its operations.                          *)

NoCall == [x_index |-> 0, args |-> [c \in Channels |-> None], redraw |-> FALSE,
           sanitized |-> [c \in Channels |-> None], warnings |-> <<>>,
           raised |-> FALSE]

\* the attributes __init__ sets to fixed numbers
DefaultConfig ==
    /\ averages_period = 20
    /\ poly_forward_perc = 1
    /\ poly_backward_perc = 2
    /\ poly_n_forward_min = 5
    /\ poly_n_backward_min = 10
    /\ poly_n_forward_max = 100
    /\ poly_n_backward_max = 100

\* the attributes __init__ takes from its arguments; it asserts that one of
\* the two charts is shown
Flags ==
    /\ show_regressions \in BOOLEAN
    /\ show_averages \in BOOLEAN
    /\ show_loss_plot \in BOOLEAN
    /\ show_acc_plot \in BOOLEAN
    /\ show_loss_plot \/ show_acc_plot

\* the defaults of these arguments
DefaultFlags ==
    /\ show_regressions = TRUE
    /\ show_averages = TRUE
    /\ show_loss_plot = TRUE
    /\ show_acc_plot = TRUE

Unused ==
    /\ fig = "None"
    /\ nb_calls = 0
    /\ call = NoCall
    /\ sma = [c \in Channels |-> NoSma]
    /\ regression = [c \in Channels |-> NoRegression]
    /\ redrawn_at = -1
    /\ raised = FALSE

Init ==
    /\ values_x = [c \in Channels |-> <<>>]
    /\ values_y = [c \in Channels |-> <<>>]
    /\ DefaultConfig
    /\ DefaultFlags
    /\ Unused

Next == add_values \/ Redraw

Spec == Init /\ [][Next]_vars

----------------------------------------------------------------------------
(* One add_values call with any values, on a plotter that already holds    *)
(* zero or one observation per channel.                                    *)

\* a series as the list of its (index, value) pairs
XsOf(series) == [i \in 1..Len(series) |-> series[i][1]]
YsOf(series) == [i \in 1..Len(series) |-> series[i][2]]

InitCall ==
    /\ \E held \in [Channels -> {<<>>, <<<<1, 3>>>>}] :
          /\ values_x = [c \in Channels |-> XsOf(held[c])]
          /\ values_y = [c \in Channels |-> YsOf(held[c])]
    /\ DefaultConfig
    /\ DefaultFlags
    /\ Unused

add_values_once ==
    /\ nb_calls = 0
    /\ \E x_index \in XIndices, args \in AllArgs, redraw \in BOOLEAN :
          AddValues(x_index, args, redraw)

SpecCall == InitCall /\ [][add_values_once]_vars

----------------------------------------------------------------------------
(* The derived views on stored series of up to MaxLen observations.        *)

\* the series a channel can hold: any indices in any order, any values
Series == UNION {[1..n -> SeriesIdx \X SeriesVals] : n \in 0..MaxLen}

\* loss_train holds the series, loss_val all but its last observation,
\* acc_train all but its first, acc_val nothing
Holding(series) ==
    LET held == [c \in Channels |->
                   CASE c = "loss_train" -> series
                     [] c = "loss_val" -> SubSeq(series, 1, Len(series) - 1)
                     [] c = "acc_train" -> SubSeq(series, 2, Len(series))
                     [] c = "acc_val" -> <<>>]
    IN /\ values_x = [c \in Channels |-> XsOf(held[c])]
       /\ values_y = [c \in Channels |-> YsOf(held[c])]

\* _calc_sma under any smoothing window and any constructor flags
InitSma ==
    /\ \E series \in Series : Holding(series)
    /\ averages_period \in 1..MaxPeriod
    /\ poly_forward_perc = 1
    /\ poly_backward_perc = 2
    /\ poly_n_forward_min = 5
    /\ poly_n_backward_min = 10
    /\ poly_n_forward_max = 100
    /\ poly_n_backward_max = 100
    /\ Flags
    /\ Unused

SpecSma == InitSma /\ [][Redraw]_vars

\* the (backward, forward) percentages of SpecReg, in tenths
PercPairs == {<<2, 1>>, <<5, 10>>, <<10, 5>>}

\* _calc_regression under the percentages of PercPairs and clamp bounds with
\* min <= max: any backward bounds in 0..MaxBound, forward bounds that are
\* 0 or MaxBound
InitReg ==
    /\ \E series \in Series : Holding(series)
    /\ averages_period = 20
    /\ \E pp \in PercPairs : poly_backward_perc = pp[1] /\ poly_forward_perc = pp[2]
    /\ poly_n_forward_min \in {0, MaxBound}
    /\ poly_n_forward_max \in {poly_n_forward_min, MaxBound}
    /\ poly_n_backward_min \in 0..MaxBound
    /\ poly_n_backward_max \in poly_n_backward_min..MaxBound
    /\ DefaultFlags
    /\ Unused

SpecReg == InitReg /\ [][Redraw]_vars

----------------------------------------------------------------------------
(* Properties.                                                             *)

Last(list) == list[Len(list)]

IsPrefix(s, t) == Len(s) <= Len(t) /\ SubSeq(t, 1, Len(s)) = s

\* C1 (SpecSma): _calc_sma returns the input indices unchanged and as many
\* values as it was given; value i is the arithmetic mean of
\* y_values[max(1, i-W+1) .. i], whose occupancy is min(W, i) (positions
\* counted from 1), so the first smoothed value is the first raw value,
\* no position is left out, and an empty input gives an empty output.
C1_SmaIsTrailingMean ==
    \A c \in Channels :
        sma[c].called =>
            LET ys == values_y[c]
                W == averages_period
            IN /\ sma[c].x = values_x[c]
               /\ Len(sma[c].y) = Len(ys)
               /\ \A i \in 1..Len(ys) :
                     /\ sma[c].y[i][2] = Min(W, i)
                     /\ RatEq(sma[c].y[i],
                              <<Sum(SubSeq(ys, Max(1, i - W + 1), i)), Min(W, i)>>)
               /\ ys # <<>> => RatEq(sma[c].y[1], <<ys[1], 1>>)
               /\ ys = <<>> => sma[c].y = <<>>

\* the window has slid over a series of unequal values
C1_Witness ==
    /\ sma["loss_train"].called
    /\ averages_period = 2
    /\ values_y["loss_train"] = <<3, 0, 3>>
    /\ sma["loss_train"].y = <<<<3, 1>>, <<3, 2>>, <<3, 2>>>>

\* C2 (SpecReg): a non-empty segment returned by _calc_regression has as
\* indices exactly n_forward consecutive integers starting at the index of
\* the observation appended last (which need not be the largest index).
C2_FutureIndicesConsecutive ==
    \A c \in Channels :
        (regression[c].called /\ regression[c].future_x # <<>>) =>
            /\ Len(regression[c].future_x) = regression[c].n_forward
            /\ \A i \in 1..Len(regression[c].future_x) :
                  regression[c].future_x[i] = Last(values_x[c]) + i - 1

\* two projected indices, starting at a last index that is not the largest
C2_Witness ==
    /\ regression["loss_train"].fitted
    /\ values_x["loss_train"] = <<2, 0, 1>>
    /\ regression["loss_train"].future_x = <<1, 2>>

\* C3 (SpecReg), the claim as stated: the first point of a non-empty segment
\* is the last stored point, its index and its value.
C3_FirstPointIsLastObservation ==
    \A c \in Channels :
        (regression[c].called /\ regression[c].future_x # <<>>) =>
            /\ regression[c].future_x[1] = Last(values_x[c])
            /\ RatEq(regression[c].future_y[1], <<Last(values_y[c]), 1>>)

\* C4 (SpecCall): for each channel of an add_values call, ignore_nan_and_inf
\* returns None without a warning for None, returns None with exactly one
\* warning that names the channel's label and the call's index for NaN and
\* for +/-infinity, returns the value itself without a warning for a finite
\* value, and never raises.
C4_SanitizerOutcomes ==
    nb_calls > 0 =>
        /\ ~call.raised
        /\ \A c \in Channels :
              LET value == call.args[c]
                  about == SelectSeq(call.warnings, LAMBDA w : w.label = Label(c))
              IN /\ value = None =>
                        call.sanitized[c] = None /\ about = <<>>
                 /\ isnan(value) =>
                        /\ call.sanitized[c] = None
                        /\ about = <<Warning("NaN", Label(c), call.x_index)>>
                 /\ isinf(value) =>
                        /\ call.sanitized[c] = None
                        /\ about = <<Warning("INF", Label(c), call.x_index)>>
                 /\ value.k = "fin" =>
                        call.sanitized[c] = value /\ about = <<>>

\* one call carrying all four kinds of value
C4_Witness ==
    /\ nb_calls = 1
    /\ call.args["loss_train"] = NaN
    /\ call.args["loss_val"] = NegInf
    /\ call.args["acc_train"] = None
    /\ call.args["acc_val"] = Fin(3)
    /\ Len(call.warnings) = 2

\* C5 (SpecCall): in every add_values call each channel receives the pair
\* (x_index, value) at its end exactly when its value was supplied and is
\* finite, whatever the other three channels were given; otherwise the
\* channel is left as it was.
C5_ChannelsIndependent ==
    [][nb_calls' = nb_calls + 1 =>
        \A c \in Channels :
            IF call'.args[c].k = "fin"
            THEN /\ values_x'[c] = Append(values_x[c], call'.x_index)
                 /\ values_y'[c] = Append(values_y[c], call'.args[c].v)
            ELSE /\ values_x'[c] = values_x[c]
                 /\ values_y'[c] = values_y[c]]_vars

\* a call with NaN, infinity and nothing in three channels stored its finite
\* fourth value
C5_Witness ==
    /\ nb_calls = 1
    /\ call.args["loss_train"] = NaN
    /\ call.args["loss_val"] = Fin(3)
    /\ call.args["acc_train"] = PosInf
    /\ call.args["acc_val"] = None
    /\ values_x["loss_train"] = <<1>>
    /\ values_x["loss_val"] = <<1, 0>>
    /\ values_y["loss_val"] = <<3, 3>>
    /\ values_x["acc_train"] = <<>>

\* C6 (Spec): in every step each channel's old index and value lists are
\* prefixes of its new ones, they grow by at most one element, a new
\* observation is the last element whatever its index, and a plotter that
\* holds an observation never holds none afterwards.
C6_AppendOnly ==
    [][/\ \A c \in Channels :
             /\ IsPrefix(values_x[c], values_x'[c])
             /\ IsPrefix(values_y[c], values_y'[c])
             /\ Len(values_x'[c]) <= Len(values_x[c]) + 1
             /\ Len(values_x'[c]) = Len(values_x[c]) + 1 =>
                    Last(values_x'[c]) = call'.x_index
       /\ (\E c \in Channels : values_x[c] # <<>>) =>
              (\E c \in Channels : values_x'[c] # <<>>)]_vars

\* an observation with a smaller index stored after one with a larger index
C6_Witness ==
    /\ values_x["acc_val"] = <<1, 0>>
    /\ values_y["acc_val"] = <<3, 3>>

\* C7 (Spec): in every reachable state the index list and the value list of
\* each channel have the same length.
C7_ParallelLengths ==
    \A c \in Channels : Len(values_x[c]) = Len(values_y[c])

\* a rejected NaN next to a stored value, after an earlier stored value
C7_Witness ==
    /\ nb_calls = 2
    /\ call.args["loss_train"] = NaN
    /\ call.args["loss_val"] = Fin(3)
    /\ Len(values_x["loss_val"]) = 2
    /\ Len(values_x["loss_train"]) = 1

\* C8 (Spec): a redraw leaves the stored lists of every channel as they are;
\* a redraw of series that were already drawn gives the same views and the
\* same outcome again; and on four empty channels the views are empty and
\* nothing is raised.
C8_ViewsArePure ==
    [][nb_calls' = nb_calls =>
        /\ values_x' = values_x
        /\ values_y' = values_y
        /\ redrawn_at = nb_calls =>
              /\ sma' = sma
              /\ regression' = regression
              /\ raised' = raised
        /\ (\A c \in Channels : values_x[c] = <<>>) =>
              /\ \A c \in Channels :
                    /\ sma'[c].x = <<>> /\ sma'[c].y = <<>>
                    /\ regression'[c].future_x = <<>>
                    /\ regression'[c].future_y = <<>>
              /\ ~raised']_vars

\* views of a series of two observations, drawn after an add_values call
\* that did not redraw
C8_Witness ==
    /\ nb_calls = 2
    /\ ~call.redraw
    /\ redrawn_at = 2
    /\ values_x["loss_train"] = <<0, 1>>
    /\ regression["loss_train"].fitted
    /\ Len(sma["loss_train"].y) = 2

\* C9 (SpecReg): with min <= max for both pairs of bounds, the window sizes
\* _calc_regression computes lie within their bounds after the clamp.
C9_ClampWithinBounds ==
    \A c \in Channels :
        (regression[c].called /\ regression[c].nb_values >= 2) =>
            /\ poly_n_backward_min <= regression[c].n_backward
            /\ regression[c].n_backward <= poly_n_backward_max
            /\ poly_n_forward_min <= regression[c].n_forward
            /\ regression[c].n_forward <= poly_n_forward_max

\* a backward size cut down to its maximum and a forward size lifted to its
\* minimum
C9_Witness ==
    /\ regression["loss_train"].called
    /\ regression["loss_train"].nb_values = 3
    /\ regression["loss_train"].raw_backward = 3
    /\ regression["loss_train"].n_backward = 1
    /\ regression["loss_train"].raw_forward = 1
    /\ regression["loss_train"].n_forward = 2

\* round(count * perc / PercDen), halves away from zero
Round(count, perc) == (2 * count * perc + PercDen) \div (2 * PercDen)

\* C10 (SpecReg), the claim as stated: before the clamp each window size is
\* the product of the number of observations and the percentage, rounded to
\* the nearest integer.
C10_RawSizeIsRounded ==
    \A c \in Channels :
        (regression[c].called /\ regression[c].nb_values >= 2) =>
            /\ regression[c].raw_backward =
                  Round(regression[c].nb_values, poly_backward_perc)
            /\ regression[c].raw_forward =
                  Round(regression[c].nb_values, poly_forward_perc)

\* C10 (SpecReg), amended: before the clamp each window size is the product
\* of the number of observations and the percentage truncated to an integer,
\* the largest integer not above the product.
C10_RawSizeIsTruncated ==
    \A c \in Channels :
        (regression[c].called /\ regression[c].nb_values >= 2) =>
            /\ regression[c].raw_backward * PercDen
                  <= regression[c].nb_values * poly_backward_perc
            /\ regression[c].nb_values * poly_backward_perc
                  < (regression[c].raw_backward + 1) * PercDen
            /\ regression[c].raw_forward * PercDen
                  <= regression[c].nb_values * poly_forward_perc
            /\ regression[c].nb_values * poly_forward_perc
                  < (regression[c].raw_forward + 1) * PercDen

\* three observations at 0.2: the product 0.6 gives the size 0
C10_Witness ==
    /\ regression["loss_train"].called
    /\ regression["loss_train"].nb_values = 3
    /\ poly_backward_perc = 2
    /\ regression["loss_train"].raw_backward = 0
    /\ poly_forward_perc = 1
    /\ regression["loss_train"].raw_forward = 0

\* the last n pairs of a stored list, all of them when fewer are stored
LastPairs(s, n) == SubSeq(s, Len(s) - Min(n, Len(s)) + 1, Len(s))

\* C11 (SpecReg), the claim as stated: whenever _calc_regression reaches the
\* fit, the indices and the values passed to it are the last
\* min(n_backward, count) stored indices and values of the channel, for every
\* clamped n_backward >= 0, n_backward = 0 with n_forward > 0 included.
C11_FitOnLastPairs ==
    \A c \in Channels :
        (regression[c].fitted \/ regression[c].raised) =>
            /\ regression[c].fit_x = LastPairs(values_x[c], regression[c].n_backward)
            /\ regression[c].fit_y = LastPairs(values_y[c], regression[c].n_backward)

\* C11 (SpecReg), what the code does: for n_backward > 0 the fit is given the
\* last min(n_backward, count) pairs, for n_backward = 0 the slice [-0:] hands
\* it every stored pair; both slices select the same positions.
C11_FitOnLastPairsOrAll ==
    \A c \in Channels :
        (regression[c].fitted \/ regression[c].raised) =>
            LET n == IF regression[c].n_backward = 0
                     THEN regression[c].nb_values
                     ELSE regression[c].n_backward
            IN /\ regression[c].fit_x = LastPairs(values_x[c], n)
               /\ regression[c].fit_y = LastPairs(values_y[c], n)
               /\ Len(regression[c].fit_x) = Len(regression[c].fit_y)

\* three observations fitted in full although the backward size is 0
C11_ZeroBackwardFitsAll ==
    /\ regression["loss_train"].fitted
    /\ regression["loss_train"].n_backward = 0
    /\ regression["loss_train"].n_forward > 0
    /\ regression["loss_train"].fit_x = <<0, 1, 2>>
    /\ regression["loss_train"].fit_y = <<0, 0, 3>>

====
